---- MODULE Spec2Model ----
(***************************************************************************)
(* Model of the dissolution weatherer of PyGnome                           *)
(* (py_gnome/gnome/weatherers/dissolution.py): the per-substance element   *)
(* arrays of a spill container, the 'dissolution' entry of its mass        *)
(* balance, and the calls the model's stepping loop makes on the           *)
(* weatherer.                                                              *)
(*                                                                         *)
(* Numbers.  Masses, densities and molecular weights are integers.  A      *)
(* quotient the code stores or compares (the partition coefficient, the    *)
(* fractional mass loss) is a pair <<numerator, denominator>>; a           *)
(* denominator of 0 is the NaN numpy yields for 0/0.  Quantities that go   *)
(* through a cube root are carried as a sign class, with numpy's rules     *)
(* for division by zero and for non-finite operands.                       *)
(***************************************************************************)
EXTENDS Integers, Sequences, FiniteSets, TLC

\* ------------------------------------------------------------- bounds
\* rows (elements) the spill container holds at most, over all substances
MaxRows == 2

\* ---------------------------------------------------- substance catalog
Substances == {"oilA", "oilB"}
\* the order in which itersubstancedata yields the substances
SubstanceOrder == <<"oilA", "oilB">>

\* substance._sara['type'] per component: oilA has one aromatic and one
\* non-aromatic component, oilB has no aromatic component.
sara_type(substance) ==
    IF substance = "oilA" THEN <<"Aromatics", "Saturates">>
                          ELSE <<"Saturates", "Resins">>

\* substance.molecular_weight per component
molecular_weight(substance) ==
    IF substance = "oilA" THEN <<178, 300>> ELSE <<300, 400>>

\* substance.component_density per component
component_density(substance) ==
    IF substance = "oilA" THEN <<900, 900>> ELSE <<900, 1000>>

\* number of components of a substance
num_components(substance) == Len(sara_type(substance))

\* ------------------------------------------------------ input domains
\* per-component masses a released element of a substance can carry
MassChoices(substance) ==
    IF substance = "oilA"
    THEN {<<0, 0>>, <<50, 50>>, <<0, 50>>, <<50, 0>>}
    ELSE {<<50, 50>>}
\* droplet_avg_size of a released element (scaled to integer units)
DropletSizes == {5}
\* the spills of each substance (a spill releases one substance)
SpillNums(substance) == IF substance = "oilA" THEN {0, 1} ELSE {2}
\* water density the waves' Water object answers with (kg/m^3)
WaterDensities == {850, 1025}
\* breaking-wave fractions the wind and wave conditions give
BreakingWaveFracs == {"zero", "pos"}
\* time_step values handed to the weatherer (seconds)
TimeSteps == {900}
\* model_time values handed to the weatherer
ModelTimes == {0, 1, 2}
\* the weatherer's active window: active_start <= model_time < active_stop
active_window == [active_start |-> 1, active_stop |-> 2]

\* ----------------------------------------------------------- helpers
RECURSIVE SumSeq(_)
SumSeq(s) == IF s = <<>> THEN 0 ELSE Head(s) + SumSeq(Tail(s))

\* numpy's element-wise product of two arrays of one shape
MulSeq(a, b) == [i \in 1..Len(a) |-> a[i] * b[i]]

\* the sentinel partition coefficient of a newly released row: 0.0
PC_ZERO == <<0, 1>>
\* x == 0 for a stored quotient (NaN == 0 is False)
IsZero(q) == q[2] # 0 /\ q[1] = 0
IsNaN(q) == q[2] = 0

\* ------------------------------------------------------- sign classes
SgnOf(i) == IF i > 0 THEN "pos" ELSE IF i < 0 THEN "neg" ELSE "zero"
SgnOfQ(q) ==
    IF q[2] = 0 THEN "nan"
    ELSE IF q[1] = 0 THEN "zero"
    ELSE IF (q[1] > 0) = (q[2] > 0) THEN "pos" ELSE "neg"
SgnIsNeg(a) == a \in {"neg", "ninf"}
SgnIsInf(a) == a \in {"pinf", "ninf"}

\* float64 product
SgnMul(a, b) ==
    IF a = "nan" \/ b = "nan" THEN "nan"
    ELSE IF (a = "zero" /\ SgnIsInf(b)) \/ (b = "zero" /\ SgnIsInf(a)) THEN "nan"
    ELSE IF a = "zero" \/ b = "zero" THEN "zero"
    ELSE IF SgnIsInf(a) \/ SgnIsInf(b)
         THEN (IF SgnIsNeg(a) = SgnIsNeg(b) THEN "pinf" ELSE "ninf")
    ELSE (IF SgnIsNeg(a) = SgnIsNeg(b) THEN "pos" ELSE "neg")

\* numpy float64 quotient: x/0 is an infinity, 0/0 and inf/inf are NaN
\* (a warning, no exception)
SgnDiv(a, b) ==
    IF a = "nan" \/ b = "nan" THEN "nan"
    ELSE IF SgnIsInf(a) /\ SgnIsInf(b) THEN "nan"
    ELSE IF a = "zero" /\ b = "zero" THEN "nan"
    ELSE IF b = "zero" THEN (IF SgnIsNeg(a) THEN "ninf" ELSE "pinf")
    ELSE IF SgnIsInf(b) \/ a = "zero" THEN "zero"
    ELSE IF SgnIsInf(a)
         THEN (IF SgnIsNeg(a) = SgnIsNeg(b) THEN "pinf" ELSE "ninf")
    ELSE (IF SgnIsNeg(a) = SgnIsNeg(b) THEN "pos" ELSE "neg")

\* x + 1 for x >= 0 (or non-finite)
SgnAddOne(a) ==
    CASE a \in {"zero", "pos"} -> "pos"
      [] a = "pinf" -> "pinf"
      [] OTHER -> "nan"

\* x ** (1.0 / 3.0) and x ** (2.0 / 3.0): NaN for a negative base
SgnRoot(a) ==
    CASE a \in {"zero", "pos", "pinf"} -> a
      [] OTHER -> "nan"

\* ------------------------------------------- physical property models
\* LeeHuibers.partition_coeff(mol_wt, density): the octanol/water style
\* partition value of one component, a positive number that depends on the
\* component's molar volume.
LeeHuibers_partition_coeff(mol_wt, density) ==
    1 + (1000 * mol_wt) \div density

\* Stokes.water_phase_xfer_velocity(oil_water_rho_delta, diameter): a
\* Stokes settling relation, proportional to the density differential and to
\* the square of the droplet diameter.
Stokes_water_phase_xfer_velocity(rho_delta, diameter) ==
    SgnMul(rho_delta, SgnMul(SgnOf(diameter), SgnOf(diameter)))

\* DelvigneSweeney.breaking_waves_frac followed by
\* DingFarmer.water_column_time_fraction: a fraction in [0, 1] that is zero
\* without breaking waves, and non-finite when the transfer velocity is.
DingFarmer_water_column_time_fraction(f_bw, k_w) ==
    IF k_w = "nan" THEN "nan" ELSE f_bw

\* ------------------------------------------------------- dissolve_oil
\* arom_mask = substance._sara['type'] == 'Aromatics'   (1 is True)
arom_mask(substance) ==
    [i \in 1..num_components(substance) |->
        IF sara_type(substance)[i] = "Aromatics" THEN 1 ELSE 0]

\* not_arom_mask = substance._sara['type'] == 'Saturates'
not_arom_mask_saturates(substance) ==
    [i \in 1..num_components(substance) |->
        IF sara_type(substance)[i] = "Saturates" THEN 1 ELSE 0]

\* not_arom_mask = arom_mask ^ True
not_arom_mask(substance) ==
    [i \in 1..num_components(substance) |-> 1 - arom_mask(substance)[i]]

\* K_ow_comp = arom_mask * LeeHuibers.partition_coeff(mol_wt, rho)
K_ow_comp(substance) ==
    [i \in 1..num_components(substance) |->
        arom_mask(substance)[i] *
        LeeHuibers_partition_coeff(molecular_weight(substance)[i],
                                   component_density(substance)[i])]

RECURSIVE ProdSeq(_)
ProdSeq(s) == IF s = <<>> THEN 1 ELSE Head(s) * ProdSeq(Tail(s))

\* 1 / x per component, on the common denominator prod(x)
reciprocals(x) == [i \in 1..Len(x) |-> ProdSeq(x) \div x[i]]

\* what dissolve_oil takes from the substance before its loop over the
\* elements
per_substance ==
    [s \in Substances |->
        [arom_mask     |-> arom_mask(s),
         not_arom_mask |-> not_arom_mask(s),
         K_ow_comp     |-> K_ow_comp(s),
         rho           |-> component_density(s),
         inv_mol_wt    |-> reciprocals(molecular_weight(s)),
         inv_rho       |-> reciprocals(component_density(s))]]

\* m / mol_wt
moles(m, substance) == MulSeq(m, per_substance[substance].inv_mol_wt)

\* m / rho
volumes(m, substance) == MulSeq(m, per_substance[substance].inv_rho)

\* the overall K_ow of one element:
\*   np.sum(m * K_ow_comp / mol_wt) / np.sum(m / mol_wt)
K_ow(m, substance) ==
    <<SumSeq(MulSeq(moles(m, substance), per_substance[substance].K_ow_comp)),
      SumSeq(moles(m, substance))>>

\* oil_avg_density: (masses / masses.sum() * densities).sum()
oil_avg_density(masses, densities) ==
    <<SumSeq(MulSeq(masses, densities)), SumSeq(masses)>>

\* water_rho - avg_rho, as a sign class
rho_delta(water_rho, avg_rho) ==
    IF IsNaN(avg_rho) THEN "nan"
    ELSE SgnOf(water_rho * avg_rho[2] - avg_rho[1])

total_volume(m, substance) == SumSeq(volumes(m, substance))
aromatic_volume(m, substance) ==
    SumSeq(MulSeq(volumes(m, substance), per_substance[substance].arom_mask))
S_RA_volume(m, substance) ==
    SumSeq(MulSeq(volumes(m, substance),
                  per_substance[substance].not_arom_mask))

\* assert np.isclose(aromatic_volume + S_RA_volume, total_volume)
volume_assertion(m, substance) ==
    aromatic_volume(m, substance) + S_RA_volume(m, substance)
        = total_volume(m, substance)

\* beta_coeff: -4.84 * k_w / K_ow * v_inert ** (2.0 / 3.0)
beta_coeff(k_w, K_ow_sgn, v_inert) ==
    SgnMul(SgnDiv(SgnMul("neg", k_w), K_ow_sgn), SgnRoot(v_inert))

\* water_column_time_fraction(model_time, k_w)
water_column_time_fraction(f_bw, k_w) ==
    DingFarmer_water_column_time_fraction(f_bw, k_w)

\* the sign class of mass_dissipated as dissolve_oil computes (and prints)
\* it for one element; env = [water_rho, f_bw] is what the waves answer
mass_dissipated(m, drop_size, substance, time_step, env) ==
    LET rho == per_substance[substance].rho
        k_w == Stokes_water_phase_xfer_velocity(
                   rho_delta(env.water_rho, oil_avg_density(m, rho)),
                   drop_size)
        X == SgnDiv(SgnOf(aromatic_volume(m, substance)),
                    SgnOf(S_RA_volume(m, substance)))
        beta == beta_coeff(k_w, SgnOfQ(K_ow(m, substance)),
                           SgnOf(S_RA_volume(m, substance)))
        dX_dt == SgnDiv(SgnMul(beta, X), SgnRoot(SgnAddOne(X)))
        f_wc == water_column_time_fraction(env.f_bw, k_w)
        time_spent_in_wc == SgnMul(f_wc, SgnOf(time_step))
    IN  SgnMul(dX_dt, time_spent_in_wc)

\* environment lookups dissolve_oil makes per element: water density, peak
\* wave period, wave height, wind speed
QueriesPerElement == 4

\* the element loop of dissolve_oil gets to element i: no assertion failed
\* for an element before it
reached(data, substance, i) ==
    \A j \in 1..(i - 1) :
        volume_assertion(data.mass_components[j], substance)

\* mass_dissipated as a number of mass units
flux_units(sgn) ==
    CASE sgn \in {"pos", "pinf"} -> 1
      [] sgn \in {"neg", "ninf"} -> -1
      [] OTHER -> 0

\* dissolve_oil returning, for every element, twice the element's mass
dissolve_oil_overshoot(data, substance, time_step, env) ==
    [partition_coeff |->
        [i \in 1..Len(data.mass_components) |->
            K_ow(data.mass_components[i], substance)],
     diss |-> [i \in 1..Len(data.mass) |-> 2 * data.mass[i]],
     queries |-> QueriesPerElement * Len(data.mass_components),
     ok |-> TRUE]

\* dissolve_oil returning the mass_dissipated it computed for each element
dissolve_oil_returns_flux(data, substance, time_step, env) ==
    [partition_coeff |->
        [i \in 1..Len(data.mass_components) |->
            K_ow(data.mass_components[i], substance)],
     diss |-> [i \in 1..Len(data.mass) |->
                 flux_units(mass_dissipated(data.mass_components[i],
                                            data.droplet_avg_size[i],
                                            substance, time_step, env))],
     queries |-> QueriesPerElement * Len(data.mass_components),
     ok |-> TRUE]

\* dissolve_oil(data, substance, model_time, time_step): the partition
\* coefficient of every element is overwritten with its overall K_ow, the
\* environment is queried for every element, and the array returned is
\* np.zeros(len(data['mass'])).
\* Result: the partition_coeff array after the call, the returned diss,
\* the number of environment queries, and whether every assertion held.
dissolve_oil(data, substance, time_step, env) ==
    [partition_coeff |->
        [i \in 1..Len(data.mass_components) |->
            IF reached(data, substance, i)
            THEN K_ow(data.mass_components[i], substance)
            ELSE data.partition_coeff[i]],
     diss |-> [i \in 1..Len(data.mass) |-> 0],
     queries |->
        SumSeq([i \in 1..Len(data.mass_components) |->
                   IF ~reached(data, substance, i) THEN 0
                   ELSE IF volume_assertion(data.mass_components[i],
                                            substance)
                        THEN QueriesPerElement
                        ELSE 1]),
     ok |-> reached(data, substance, Len(data.mass_components) + 1)]

\* ---------------------------------------------------------- the state
VARIABLES
    on,            \* the weatherer's on flag
    active,        \* the weatherer's active flag
    sc,            \* the spill container's arrays, per substance
    mass_balance,  \* sc.mass_balance, a dict from process name to mass
    run_state,     \* "new" | "running" | "aborted"
    call,          \* the last call made on the weatherer and what it reported
    released,      \* the arrays as released, untouched by any weatherer
    accrued,       \* per substance, the mass reported dissolved in this run
    history        \* stepped: an active step has run over elements, in
                   \* this run or an earlier one; weathered: per row,
                   \* dissolve_oil has set its partition coefficient

\* the web application's model manager (webgnome/mock_model.py)
VARIABLES
    running_models, \* ModelManager.running_models, a dict from key to model
    made,           \* the number of MockModel objects constructed so far
    reply           \* the last ModelManager call and what it returned

\* the date/time conversions (tests/unit_tests/test_cy_date_time.py)
VARIABLES
    daterec,       \* the date record under test
    pySec,         \* time_utils.dateToSeconds_noDst of it
    sec,           \* what DateToSeconds has returned, if called
    date           \* what SecondsToDate has returned, if called

weatherer_vars ==
    <<on, active, sc, mass_balance, run_state, call, released, accrued,
      history>>
manager_vars == <<running_models, made, reply>>
date_vars == <<daterec, pySec, sec, date>>
vars == <<weatherer_vars, manager_vars, date_vars>>

\* the arrays of a substance without elements
EmptyData ==
    [mass |-> <<>>, mass_components |-> <<>>, partition_coeff |-> <<>>,
     droplet_avg_size |-> <<>>, spill_num |-> <<>>, density |-> <<>>,
     viscosity |-> <<>>]

\* sc.num_released: the number of elements in the container
num_released(container) ==
    SumSeq([k \in 1..Len(SubstanceOrder) |->
               Len(container[SubstanceOrder[k]].spill_num)])

\* sc.mass_balance['dissolution'] read as .get('dissolution', 0.0)
ledger(mb) == IF "dissolution" \in DOMAIN mb THEN mb["dissolution"] ELSE 0

\* mb[key] = value
dict_set(mb, key, value) ==
    [k \in DOMAIN mb \cup {key} |-> IF k = key THEN value ELSE mb[k]]

NoReport == [s \in Substances |-> 0]
NoFrac == [s \in Substances |-> <<0, 1>>]

\* the record of a call that reports nothing
Call(op, n, time_step, water_rho) ==
    [op |-> op, n |-> n, time_step |-> time_step, water_rho |-> water_rho,
     raised |-> FALSE, diss |-> NoReport, queries |-> NoReport,
     frac |-> NoFrac]

\* model_id values without a model: None, '' (both false in `if model_id`)
NoId == 0

\* no call has been made on the manager
NoReply ==
    [op |-> "none", model_id |-> NoId, model |-> <<>>, flag |-> FALSE,
     raised |-> FALSE]

\* ModelManager.__init__: self.running_models = {}
ManagerInit ==
    /\ running_models = [k \in {} |-> 0]
    /\ made = 0
    /\ reply = NoReply

\* a date record: year, month, day, hour, minute, second, dayOfWeek
DateRec(year, month, day, hour, minute, second, dayOfWeek) ==
    [year |-> year, month |-> month, day |-> day, hour |-> hour,
     minute |-> minute, second |-> second, dayOfWeek |-> dayOfWeek]

\* the conversions are not in use
DateIdle ==
    /\ daterec = DateRec(1970, 1, 1, 0, 0, 0, 3)
    /\ pySec = 0
    /\ sec = <<>>
    /\ date = <<>>

\* the weatherer and the spill container after construction
WeathererInit ==
    /\ on \in BOOLEAN
    /\ active = on
    /\ sc = [s \in Substances |-> EmptyData]
    /\ released = [s \in Substances |-> EmptyData]
    /\ accrued = NoReport
    /\ mass_balance = [k \in {} |-> 0]
    /\ run_state = "new"
    /\ call = Call("init", 0, 0, 0)
    /\ history = [stepped |-> FALSE, weathered |-> [s \in Substances |-> <<>>]]

\* the weatherer is not in use
WeathererIdle == WeathererInit /\ ~on

Init ==
    /\ WeathererInit
    /\ ManagerInit
    /\ DateIdle

\* -------------------------------------------------- the spill container
\* one element of `substance` appended to every array, its partition
\* coefficient the sentinel 0.0
append_element(data, m, drop_size, s_num) ==
    [mass             |-> Append(data.mass, SumSeq(m)),
     mass_components  |-> Append(data.mass_components, m),
     partition_coeff  |-> Append(data.partition_coeff, PC_ZERO),
     droplet_avg_size |-> Append(data.droplet_avg_size, drop_size),
     spill_num        |-> Append(data.spill_num, s_num),
     density          |-> Append(data.density, 900),
     viscosity        |-> Append(data.viscosity, 1)]

\* sc.release_elements: a spill releases one element
release_elements ==
    /\ run_state = "running"
    /\ num_released(sc) < MaxRows
    /\ \E substance \in Substances :
       \E m \in MassChoices(substance), drop_size \in DropletSizes,
          s_num \in SpillNums(substance) :
          /\ sc' = [sc EXCEPT ![substance] =
                       append_element(@, m, drop_size, s_num)]
          /\ released' = [released EXCEPT ![substance] =
                       append_element(@, m, drop_size, s_num)]
          /\ history' = [history EXCEPT !.weathered[substance] =
                       Append(@, FALSE)]
    /\ call' = Call("release_elements", 1, 0, 0)
    /\ UNCHANGED <<on, active, mass_balance, run_state, accrued>>
    /\ UNCHANGED <<manager_vars, date_vars>>

\* sc.rewind: the arrays are emptied; the run starts anew
rewind ==
    /\ run_state # "new"
    /\ sc' = [s \in Substances |-> EmptyData]
    /\ released' = [s \in Substances |-> EmptyData]
    /\ run_state' = "new"
    /\ active' = on
    /\ call' = Call("rewind", 0, 0, 0)
    /\ history' = [history EXCEPT !.weathered = [s \in Substances |-> <<>>]]
    /\ UNCHANGED <<on, mass_balance, accrued>>
    /\ UNCHANGED <<manager_vars, date_vars>>

\* ------------------------------------------------------- the weatherer
\* prepare_for_model_run without the assignment of 0.0 to the entry
prepare_for_model_run_no_reset ==
    /\ run_state = "new"
    /\ accrued' = IF on THEN NoReport ELSE accrued
    /\ run_state' = "running"
    /\ call' = Call("prepare_for_model_run", 0, 0, 0)
    /\ UNCHANGED <<on, active, sc, mass_balance, released, history>>
    /\ UNCHANGED <<manager_vars, date_vars>>

\* prepare_for_model_run(sc)
prepare_for_model_run ==
    /\ run_state = "new"
    /\ mass_balance' = IF on THEN dict_set(mass_balance, "dissolution", 0)
                             ELSE mass_balance
    /\ accrued' = IF on THEN NoReport ELSE accrued
    /\ run_state' = "running"
    /\ call' = Call("prepare_for_model_run", 0, 0, 0)
    /\ UNCHANGED <<on, active, sc, released, history>>
    /\ UNCHANGED <<manager_vars, date_vars>>

\* Weatherer.prepare_for_model_step: active is on and inside the window
window_active(model_time) ==
    /\ on
    /\ active_window.active_start <= model_time
    /\ model_time < active_window.active_stop

\* prepare_for_model_step(sc, time_step, model_time)
prepare_for_model_step(time_step, model_time) ==
    /\ run_state = "running"
    /\ active' = window_active(model_time)
    /\ call' = Call("prepare_for_model_step", 0, 0, 0)
    /\ UNCHANGED <<on, sc, mass_balance, run_state, released, accrued,
                   history>>
    /\ UNCHANGED <<manager_vars, date_vars>>

\* _initialize_k_ow with s_mask = (data['spill_num'] == s_num), the rows of
\* the spill whether or not they hold the sentinel
initialize_k_ow_spill_mask(container) ==
    LET counted(substance) ==
            IF Len(container[substance].partition_coeff) = 0 THEN 0
            ELSE Len(container[substance].partition_coeff)
        rewritten(data) ==
            [data EXCEPT !.partition_coeff =
                [i \in 1..Len(data.partition_coeff) |->
                    IF \E k \in 1..Len(data.spill_num) :
                          /\ IsZero(data.partition_coeff[k])
                          /\ data.spill_num[k] = data.spill_num[i]
                    THEN PC_ZERO
                    ELSE data.partition_coeff[i]]]
    IN  [num_initialized |->
            SumSeq([k \in 1..Len(SubstanceOrder) |->
                       counted(SubstanceOrder[k])]),
         sc |-> [s \in Substances |-> rewritten(container[s])]]

\* _initialize_k_ow: the count the assertion compares with num_released,
\* and the arrays after the loop
initialize_k_ow(container) ==
    LET counted(substance) ==
            IF Len(container[substance].partition_coeff) = 0 THEN 0
            ELSE Len([i \in 1..Len(container[substance].partition_coeff) |->
                         IsZero(container[substance].partition_coeff[i])])
        rewritten(data) ==
            [data EXCEPT !.partition_coeff =
                [i \in 1..Len(data.partition_coeff) |->
                    IF /\ IsZero(data.partition_coeff[i])
                       /\ \E s_num \in {data.spill_num[j] :
                              j \in {k \in 1..Len(data.spill_num) :
                                        IsZero(data.partition_coeff[k])}} :
                              data.spill_num[i] = s_num
                    THEN PC_ZERO
                    ELSE data.partition_coeff[i]]]
    IN  [num_initialized |->
            SumSeq([k \in 1..Len(SubstanceOrder) |->
                       counted(SubstanceOrder[k])]),
         sc |-> [s \in Substances |-> rewritten(container[s])]]

\* initialize_data(sc, num_released)
initialize_data(n) ==
    /\ run_state = "running"
    /\ IF ~on
       THEN /\ call' = Call("initialize_data", n, 0, 0)
            /\ UNCHANGED <<sc, run_state>>
       ELSE LET r == initialize_k_ow(sc)
            IN  /\ sc' = r.sc
                /\ IF r.num_initialized = n
                   THEN /\ call' = Call("initialize_data", n, 0, 0)
                        /\ UNCHANGED run_state
                   ELSE /\ call' = [Call("initialize_data", n, 0, 0)
                                       EXCEPT !.raised = TRUE]
                        /\ run_state' = "aborted"
    /\ UNCHANGED <<on, active, mass_balance, released, accrued, history>>
    /\ UNCHANGED <<manager_vars, date_vars>>

\* ---------------------------------------------------- weather_elements
\* diss_mass_frac: np.sum(diss) / data['mass'].sum(), clamped to 1, and 0
\* when the substance holds no mass
diss_mass_frac(diss_sum, mass_sum) ==
    IF mass_sum > 0
    THEN (IF diss_sum > mass_sum THEN <<1, 1>> ELSE <<diss_sum, mass_sum>>)
    ELSE <<0, 1>>

\* (diss_mass_frac - 1) * data['mass_components']
scale_components_swapped(frac, mass_components) ==
    [i \in 1..Len(mass_components) |->
        [j \in 1..Len(mass_components[i]) |->
            ((frac[1] - frac[2]) * mass_components[i][j]) \div frac[2]]]

\* (1 - diss_mass_frac) * data['mass_components']
scale_components(frac, mass_components) ==
    [i \in 1..Len(mass_components) |->
        [j \in 1..Len(mass_components[i]) |->
            ((frac[2] - frac[1]) * mass_components[i][j]) \div frac[2]]]

\* data['mass_components'].sum(0): the sum over the elements, per component
row_sums_axis0(mass_components) ==
    IF mass_components = <<>> THEN <<>>
    ELSE [j \in 1..Len(mass_components[1]) |->
             SumSeq([i \in 1..Len(mass_components) |-> mass_components[i][j]])]

\* data['mass_components'].sum(1)
row_sums(mass_components) ==
    [i \in 1..Len(mass_components) |-> SumSeq(mass_components[i])]

\* the iteration with the water density looked up before the test for an
\* empty substance
weather_substance_query_first(st, substance, time_step, env) ==
    LET data == st.sc[substance]
        r == dissolve_oil(data, substance, time_step, env)
    IN  IF Len(data.mass) = 0
        THEN [st EXCEPT !.queries[substance] = 1]
        ELSE [st EXCEPT
                !.sc[substance] =
                    [data EXCEPT !.partition_coeff = r.partition_coeff],
                !.queries[substance] = r.queries + 1]

\* the iteration with sc.mass_balance['dissolution'] += np.sum(data['mass'])
weather_substance_accrues_mass(st, substance, time_step, env) ==
    LET data == st.sc[substance]
    IN  IF Len(data.mass) = 0 THEN st
        ELSE
        LET r == dissolve_oil(data, substance, time_step, env)
            after == [data EXCEPT !.partition_coeff = r.partition_coeff]
            diss_sum == SumSeq(r.diss)
            frac == diss_mass_frac(diss_sum, SumSeq(data.mass))
            scaled == scale_components(frac, data.mass_components)
        IN  IF ~r.ok \/ "dissolution" \notin DOMAIN st.mass_balance
            THEN [st EXCEPT !.sc[substance] = after,
                            !.queries[substance] = r.queries,
                            !.ok = FALSE]
            ELSE [st EXCEPT
                    !.sc[substance] =
                        [after EXCEPT !.mass_components = scaled,
                                      !.mass = row_sums(scaled)],
                    !.mass_balance =
                        dict_set(@, "dissolution",
                                 st.mass_balance["dissolution"]
                                     + SumSeq(data.mass)),
                    !.diss[substance] = diss_sum,
                    !.queries[substance] = r.queries,
                    !.frac[substance] = frac]

\* One iteration of the loop over itersubstancedata.  st is the state of
\* the call: the arrays, the mass balance, what was reported per substance,
\* and ok, FALSE once an exception has been raised.
weather_substance(st, substance, time_step, env) ==
    LET data == st.sc[substance]
    IN  IF Len(data.mass) = 0 THEN st
        ELSE
        LET r == dissolve_oil(data, substance, time_step, env)
            after == [data EXCEPT !.partition_coeff = r.partition_coeff]
            diss_sum == SumSeq(r.diss)
            frac == diss_mass_frac(diss_sum, SumSeq(data.mass))
            scaled == scale_components(frac, data.mass_components)
        IN  IF ~r.ok \/ "dissolution" \notin DOMAIN st.mass_balance
            THEN \* AssertionError in dissolve_oil, or KeyError on the +=
                 [st EXCEPT !.sc[substance] = after,
                            !.queries[substance] = r.queries,
                            !.ok = FALSE]
            ELSE [st EXCEPT
                    !.sc[substance] =
                        [after EXCEPT !.mass_components = scaled,
                                      !.mass = row_sums(scaled)],
                    !.mass_balance =
                        dict_set(@, "dissolution",
                                 st.mass_balance["dissolution"] + diss_sum),
                    !.diss[substance] = diss_sum,
                    !.queries[substance] = r.queries,
                    !.frac[substance] = frac]

RECURSIVE weather_loop(_, _, _, _)
weather_loop(order, st, time_step, env) ==
    IF order = <<>> \/ ~st.ok THEN st
    ELSE LET next == weather_substance(st, Head(order), time_step, env)
         IN  weather_loop(Tail(order), next, time_step, env)

\* the state a call starts from
call_state ==
    [sc |-> sc, mass_balance |-> mass_balance, diss |-> NoReport,
     queries |-> NoReport, frac |-> NoFrac, ok |-> TRUE]

\* the call returns at once
returns_at_once(time_step, env) ==
    /\ call' = Call("weather_elements", 0, time_step, env.water_rho)
    /\ UNCHANGED <<sc, mass_balance, run_state, accrued, history>>

\* the loop over the substances, then sc.update_from_fatedataview()
runs_loop(time_step, env) ==
    \E st \in {weather_loop(SubstanceOrder, call_state, time_step, env)} :
        /\ sc' = st.sc
        /\ mass_balance' = st.mass_balance
        /\ accrued' = [s \in Substances |-> accrued[s] + st.diss[s]]
        /\ run_state' = IF st.ok THEN run_state ELSE "aborted"
        /\ call' = [op |-> "weather_elements", n |-> 0,
                    time_step |-> time_step,
                    water_rho |-> env.water_rho, raised |-> ~st.ok,
                    diss |-> st.diss, queries |-> st.queries,
                    frac |-> st.frac]
        /\ history' =
              [stepped |-> TRUE,
               weathered |->
                  [s \in Substances |->
                      [i \in 1..Len(history.weathered[s]) |->
                          \/ history.weathered[s][i]
                          \/ st.queries[s] > 0 /\ reached(sc[s], s, i)]]]

\* weather_elements without its test of self.active
weather_elements_no_active_check(time_step, env) ==
    /\ run_state = "running"
    /\ IF num_released(sc) = 0 THEN returns_at_once(time_step, env)
       ELSE runs_loop(time_step, env)
    /\ UNCHANGED <<on, active, released>>
    /\ UNCHANGED <<manager_vars, date_vars>>

\* weather_elements testing self.on where it tests self.active
weather_elements_tests_on(time_step, env) ==
    /\ run_state = "running"
    /\ IF ~on THEN returns_at_once(time_step, env)
       ELSE IF num_released(sc) = 0 THEN returns_at_once(time_step, env)
       ELSE runs_loop(time_step, env)
    /\ UNCHANGED <<on, active, released>>
    /\ UNCHANGED <<manager_vars, date_vars>>

\* weather_elements(sc, time_step, model_time)
weather_elements(time_step, env) ==
    /\ run_state = "running"
    /\ IF ~active THEN returns_at_once(time_step, env)
       ELSE IF num_released(sc) = 0 THEN returns_at_once(time_step, env)
       ELSE runs_loop(time_step, env)
    /\ UNCHANGED <<on, active, released>>
    /\ UNCHANGED <<manager_vars, date_vars>>

\* ------------------------------------------------------ specification
Next ==
    \/ prepare_for_model_run
    \/ release_elements
    \/ \E n \in 0..MaxRows : initialize_data(n)
    \/ \E time_step \in TimeSteps, model_time \in ModelTimes :
          prepare_for_model_step(time_step, model_time)
    \/ \E time_step \in TimeSteps, water_rho \in WaterDensities,
          f_bw \in BreakingWaveFracs :
          weather_elements(time_step,
                           [water_rho |-> water_rho, f_bw |-> f_bw])
    \/ rewind

Spec == Init /\ [][Next]_vars

\* ------------------------------------------------- the model manager
\* MockModel objects constructed at most
MaxModels == 2

\* class MockModel: __init__ sets id = uuid.uuid4(), movers = {}, spills = {}
MockModel(id) == [id |-> id, movers |-> <<>>, spills |-> <<>>]

\* uuid.uuid4() of the n-th MockModel constructed: a value no earlier call
\* has returned, and never a false one
uuid4(n) == n

\* a model_id that is true in `if model_id` and is no model's id
OtherId == -1

\* the values a caller passes as model_id: None or '' (NoId), the id of a
\* model constructed so far, and a value that is no model's id
ModelIds == {NoId, OtherId} \cup {uuid4(n) : n \in 1..made}

\* `if model_id:`
truthy(model_id) == model_id # NoId

\* self.running_models.get(model_id, None), as a sequence of 0 or 1 models
dict_get(pool, key) == IF key \in DOMAIN pool THEN <<pool[key]>> ELSE <<>>

\* model_id in self.running_models
contains(pool, key) == key \in DOMAIN pool

\* self.running_models.pop(model_id, None)
dict_pop(pool, key) == [k \in DOMAIN pool \ {key} |-> pool[k]]

\* the outcome of a manager call
Reply(op, model_id, model, flag, raised) ==
    [op |-> op, model_id |-> model_id, model |-> model, flag |-> flag,
     raised |-> raised]

\* create(): model = MockModel(); self.running_models[model.id] = model
create ==
    /\ made < MaxModels
    /\ made' = made + 1
    /\ running_models' =
          dict_set(running_models, uuid4(made + 1), MockModel(uuid4(made + 1)))
    /\ reply' = Reply("create", NoId, <<MockModel(uuid4(made + 1))>>,
                      FALSE, FALSE)
    /\ UNCHANGED <<weatherer_vars, date_vars>>

\* get_or_create(model_id): the lookup is made only for a true model_id;
\* without a model found, create() is called.  flag is `created`.
get_or_create(model_id) ==
    LET model == IF truthy(model_id) THEN dict_get(running_models, model_id)
                                     ELSE <<>>
    IN  /\ IF model = <<>>
           THEN /\ made < MaxModels
                /\ made' = made + 1
                /\ running_models' =
                      dict_set(running_models, uuid4(made + 1),
                               MockModel(uuid4(made + 1)))
                /\ reply' = Reply("get_or_create", model_id,
                                  <<MockModel(uuid4(made + 1))>>, TRUE, FALSE)
           ELSE /\ reply' = Reply("get_or_create", model_id, model,
                                  FALSE, FALSE)
                /\ UNCHANGED <<running_models, made>>
        /\ UNCHANGED <<weatherer_vars, date_vars>>

\* get with the lookup of get_or_create: made only for a true model_id,
\* DoesNotExist raised when no model was found
get_if_truthy(model_id) ==
    /\ reply' = IF ~truthy(model_id) \/ ~contains(running_models, model_id)
                THEN Reply("get", model_id, <<>>, FALSE, TRUE)
                ELSE Reply("get", model_id,
                           dict_get(running_models, model_id), FALSE, FALSE)
    /\ UNCHANGED <<running_models, made>>
    /\ UNCHANGED <<weatherer_vars, date_vars>>

\* get(model_id): raises DoesNotExist unless model_id in running_models
get(model_id) ==
    /\ reply' = IF ~contains(running_models, model_id)
                THEN Reply("get", model_id, <<>>, FALSE, TRUE)
                ELSE Reply("get", model_id,
                           dict_get(running_models, model_id), FALSE, FALSE)
    /\ UNCHANGED <<running_models, made>>
    /\ UNCHANGED <<weatherer_vars, date_vars>>

\* add(model_id, model): self.running_models[model_id] = model, for a
\* model constructed earlier
add(model_id, model) ==
    /\ running_models' = dict_set(running_models, model_id, model)
    /\ reply' = Reply("add", model_id, <<>>, FALSE, FALSE)
    /\ UNCHANGED made
    /\ UNCHANGED <<weatherer_vars, date_vars>>

\* delete(model_id): self.running_models.pop(model_id, None)
delete(model_id) ==
    /\ running_models' = dict_pop(running_models, model_id)
    /\ reply' = Reply("delete", model_id, <<>>, FALSE, FALSE)
    /\ UNCHANGED made
    /\ UNCHANGED <<weatherer_vars, date_vars>>

\* exists(model_id): model_id in self.running_models.  flag is the answer.
exists(model_id) ==
    /\ reply' = Reply("exists", model_id, <<>>,
                      contains(running_models, model_id), FALSE)
    /\ UNCHANGED <<running_models, made>>
    /\ UNCHANGED <<weatherer_vars, date_vars>>

InitManager ==
    /\ ManagerInit
    /\ WeathererIdle
    /\ DateIdle

NextManager ==
    \/ create
    \/ \E model_id \in ModelIds : get_or_create(model_id)
    \/ \E model_id \in ModelIds : get(model_id)
    \/ \E model_id \in ModelIds, n \in 1..made :
          add(model_id, MockModel(uuid4(n)))
    \/ \E model_id \in ModelIds : delete(model_id)
    \/ \E model_id \in ModelIds : exists(model_id)

SpecManager == InitManager /\ [][NextManager]_vars

\* ------------------------------------------- date/time conversions
\* Seconds are counted from 1970-01-01 00:00:00 of the local standard
\* time; daylight saving is not applied (tm_isdst = 0).
IsLeap(year) == (year % 4 = 0 /\ year % 100 # 0) \/ year % 400 = 0

DaysInMonth(year, month) ==
    CASE month \in {4, 6, 9, 11} -> 30
      [] month = 2 -> (IF IsLeap(year) THEN 29 ELSE 28)
      [] OTHER -> 31

RECURSIVE DaysBeforeYear(_)
DaysBeforeYear(year) ==
    IF year <= 1970 THEN 0
    ELSE DaysBeforeYear(year - 1) + (IF IsLeap(year - 1) THEN 366 ELSE 365)

RECURSIVE DaysBeforeMonth(_, _)
DaysBeforeMonth(year, month) ==
    IF month <= 1 THEN 0
    ELSE DaysBeforeMonth(year, month - 1) + DaysInMonth(year, month - 1)

\* days from 1970-01-01 to the date, counted year by year and month by
\* month
DayNumber(d) ==
    DaysBeforeYear(d.year) + DaysBeforeMonth(d.year, d.month) + d.day - 1

SecondsOfDay(d) == (d.hour * 60 + d.minute) * 60 + d.second

\* time_utils.dateToSeconds_noDst(date): the reference conversion
dateToSeconds_noDst(d) == DayNumber(d) * 86400 + SecondsOfDay(d)

\* datetime.weekday(): Monday is 0 (1970-01-01 was a Thursday)
weekday(d) == (DayNumber(d) + 3) % 7

\* the C library's day count of a calendar date, from the 400-year era
\* of the year that starts in March
days_from_civil(year, month, day) ==
    LET y == IF month <= 2 THEN year - 1 ELSE year
        era == y \div 400
        yoe == y - era * 400
        mp == (month + 9) % 12
        doy == (153 * mp + 2) \div 5 + day - 1
        doe == yoe * 365 + yoe \div 4 - yoe \div 100 + doy
    IN  era * 146097 + doe - 719468

\* DateToSeconds with the month taken as tm_mon without the shift to 0..11
DateToSeconds_month_unshifted(d) ==
    days_from_civil(d.year, d.month + 1, d.day) * 86400 + SecondsOfDay(d)

\* Cy_date_time.DateToSeconds(daterec)
DateToSeconds(d) ==
    days_from_civil(d.year, d.month, d.day) * 86400 + SecondsOfDay(d)

\* the calendar date of a day count, with the weekday as the caller wants
\* it numbered
civil_from_days(days, seconds, dayOfWeek) ==
    LET z == days + 719468
        era == z \div 146097
        doe == z - era * 146097
        yoe == (doe - doe \div 1460 + doe \div 36524 - doe \div 146096)
                   \div 365
        doy == doe - (365 * yoe + yoe \div 4 - yoe \div 100)
        mp == (5 * doy + 2) \div 153
        month == IF mp < 10 THEN mp + 3 ELSE mp - 9
    IN  DateRec(yoe + era * 400 + (IF month <= 2 THEN 1 ELSE 0), month,
                doy - (153 * mp + 2) \div 5 + 1,
                seconds \div 3600, (seconds % 3600) \div 60, seconds % 60,
                dayOfWeek)

\* Cy_date_time.SecondsToDate(seconds): the C time struct numbers the
\* weekdays from Sunday = 0, and 1 is added to it
SecondsToDate(seconds) ==
    civil_from_days(seconds \div 86400, seconds % 86400,
                    ((seconds \div 86400 + 4) % 7) + 1)

\* time_utils.secondsToDate_noDst(seconds), as SecondsToDateFromPyGnome
\* copies it into a date record: tm_wday numbers the weekdays from Monday
SecondsToDateFromPyGnome(seconds) ==
    civil_from_days(seconds \div 86400, seconds % 86400,
                    (seconds \div 86400 + 3) % 7)

\* the dates and times of day the date record is drawn from
Years == {1970, 1999, 2000, 2012, 2013, 2037}
TimesOfDay == {<<0, 0, 0>>, <<12, 30, 15>>, <<23, 59, 59>>}
DateRecs ==
    {DateRec(year, month, day, tod[1], tod[2], tod[3],
             weekday([year |-> year, month |-> month, day |-> day])) :
        year \in Years, month \in 1..12, day \in {1, 28, 29, 30, 31},
        tod \in TimesOfDay}

\* class TestCy_date_time: daterec and pySec are set when the class is built
InitDate ==
    /\ daterec \in {d \in DateRecs : d.day <= DaysInMonth(d.year, d.month)}
    /\ pySec = dateToSeconds_noDst(daterec)
    /\ sec = <<>>
    /\ date = <<>>
    /\ ManagerInit
    /\ WeathererIdle

\* test_DateToSeconds: sec = self.target.DateToSeconds(self.daterec)
test_DateToSeconds ==
    /\ sec' = <<DateToSeconds(daterec)>>
    /\ UNCHANGED <<daterec, pySec, date>>
    /\ UNCHANGED <<weatherer_vars, manager_vars>>

\* test_SecondsToDate: date = self.target.SecondsToDate(self.pySec)
test_SecondsToDate ==
    /\ date' = <<SecondsToDate(pySec)>>
    /\ UNCHANGED <<daterec, pySec, sec>>
    /\ UNCHANGED <<weatherer_vars, manager_vars>>

NextDate == test_DateToSeconds \/ test_SecondsToDate

SpecDate == InitDate /\ [][NextDate]_vars

\* ------------------------------------------------------------- claims
TotalMass(container, substance) == SumSeq(container[substance].mass)

\* the weather_elements call just made ran dissolve_oil on the substance
Weathered(substance) ==
    /\ call.op = "weather_elements"
    /\ ~call.raised
    /\ call.queries[substance] > 0

\* the rows of a substance that hold the sentinel-zero partition coefficient
SentinelRows(container, substance) ==
    {i \in 1..Len(container[substance].partition_coeff) :
        IsZero(container[substance].partition_coeff[i])}

NumSentinel(container) ==
    SumSeq([k \in 1..Len(SubstanceOrder) |->
               Cardinality(SentinelRows(container, SubstanceOrder[k]))])

\* C1 -- Mass conservation: in every state, for every substance, the
\* current total element mass plus the mass accrued to the 'dissolution'
\* entry for that substance equals the total mass released for it, and the
\* entry the substances share holds the sum of what accrued for each.
C1_MassConservation ==
    /\ \A s \in Substances :
          TotalMass(sc, s) + accrued[s] = TotalMass(released, s)
    /\ ledger(mass_balance) =
          SumSeq([k \in 1..Len(SubstanceOrder) |-> accrued[SubstanceOrder[k]]])

\* an active step has just run over two substances that both hold mass
C1_Witness ==
    /\ \A s \in Substances : Weathered(s) /\ TotalMass(sc, s) > 0
    /\ "dissolution" \in DOMAIN mass_balance

\* C2 -- Release-count assertion: when initialize_data(sc, n) has been
\* called on an enabled process and the number of rows holding the
\* sentinel-zero partition coefficient differs from n, the call has failed.
C2_CountMismatchFails ==
    (call.op = "initialize_data" /\ on /\ NumSentinel(sc) # call.n)
        => call.raised

\* C3 -- when initialize_data(sc, n) has been called on an enabled process
\* and exactly n rows hold the sentinel-zero partition coefficient, the
\* call has completed, also when the container holds rows released earlier
\* whose partition coefficient a weather_elements call has set.
C3_ExactCountCompletes ==
    (call.op = "initialize_data" /\ on /\ NumSentinel(sc) = call.n)
        => ~call.raised

\* C4 -- Component-sum invariant: for every substance the mass array has a
\* row per element, and every element's mass is the sum of its component
\* masses.
C4_ComponentSum ==
    \A s \in Substances :
        /\ Len(sc[s].mass) = Len(sc[s].mass_components)
        /\ \A i \in 1..Len(sc[s].mass_components) :
              sc[s].mass[i] = SumSeq(sc[s].mass_components[i])

\* an active step has just run over a substance with two elements that
\* carry different masses
C4_Witness ==
    \E s \in Substances :
        /\ Weathered(s)
        /\ Len(sc[s].mass) = 2
        /\ sc[s].mass[1] # sc[s].mass[2]

\* C5 -- Disabled process: with on = False the 'dissolution' entry reads
\* zero and every element array is what the releases alone made it.
C5_DisabledProcess ==
    ~on => (ledger(mass_balance) = 0 /\ sc = released)

\* a disabled process has been through prepare_for_model_run and is asked
\* to weather a container that holds elements with mass
C5_Witness ==
    /\ ~on
    /\ call.op = "weather_elements"
    /\ run_state = "running"
    /\ \E s \in Substances : TotalMass(sc, s) > 0

\* C6 -- Active window: a weather_elements call made while the process is
\* not active changes neither the mass balance nor any element array.
C6_InactiveNoEffect ==
    [][(call'.op = "weather_elements" /\ ~active)
          => (mass_balance' = mass_balance /\ sc' = sc)]_vars

\* an enabled process outside its window has been asked to weather a newly
\* released element with aromatic mass
C6_Witness ==
    /\ on /\ ~active
    /\ call.op = "weather_elements"
    /\ \E i \in SentinelRows(sc, "oilA") :
          sc["oilA"].mass_components[i][1] > 0

\* C7 -- Zero-element skip: a weather_elements call makes no environment
\* query for a substance without elements and leaves its arrays alone; on
\* a container with num_released = 0 it makes no query at all and leaves
\* the mass balance and the arrays unchanged.
C7_ZeroElementSkip ==
    [][call'.op = "weather_elements" =>
          /\ \A s \in Substances :
                Len(sc[s].mass) = 0 =>
                    /\ call'.queries[s] = 0
                    /\ call'.diss[s] = 0
                    /\ sc'[s] = sc[s]
          /\ num_released(sc) = 0 =>
                /\ \A s \in Substances : call'.queries[s] = 0
                /\ mass_balance' = mass_balance
                /\ sc' = sc]_vars

\* an active step has just run over a container in which one substance has
\* elements and the other has none
C7_Witness ==
    /\ active
    /\ Weathered("oilB")
    /\ Len(sc["oilA"].mass) = 0
    /\ call.queries["oilA"] = 0

\* the substance's single element meets the conditions of C8 for a step of
\* time_step seconds in water of density water_rho
C8_Scenario(s, time_step, water_rho) ==
    /\ Len(sc[s].mass) = 1
    /\ \E j \in 1..num_components(s) :
          arom_mask(s)[j] = 1 /\ sc[s].mass_components[1][j] > 0
    /\ \E j \in 1..num_components(s) :
          arom_mask(s)[j] = 0 /\ sc[s].mass_components[1][j] > 0
    /\ sc[s].droplet_avg_size[1] > 0
    /\ rho_delta(water_rho,
                 oil_avg_density(sc[s].mass_components[1],
                                 component_density(s))) = "pos"
    /\ time_step > 0

\* C8 -- an active step over a substance whose single element has positive
\* aromatic and non-aromatic mass and a positive droplet size, in water
\* denser than the oil and over a positive duration, reports a dissipated
\* mass d with 0 < d < total mass, and leaves every component mass reduced
\* by the fraction d / total mass.
C8_PositiveLoss ==
    [][\A s \in Substances :
          (/\ call'.op = "weather_elements"
           /\ active
           /\ C8_Scenario(s, call'.time_step, call'.water_rho))
          => /\ call'.diss[s] > 0
             /\ call'.diss[s] < sc[s].mass[1]
             /\ \A j \in 1..num_components(s) :
                   sc'[s].mass_components[1][j] * sc[s].mass[1] =
                       sc[s].mass_components[1][j] *
                           (sc[s].mass[1] - call'.diss[s])]_vars

\* C9 -- Monotonic loss: the 'dissolution' entry does not decrease over a
\* weather_elements step.
C9_MonotonicLoss ==
    [][call'.op = "weather_elements"
          => ledger(mass_balance') >= ledger(mass_balance)]_vars

\* an active step has just run, in water denser than the oil, over an
\* element with aromatic and non-aromatic mass and a positive droplet size
C9_Witness ==
    /\ Weathered("oilA")
    /\ C8_Scenario("oilA", call.time_step, call.water_rho)
    /\ "dissolution" \in DOMAIN mass_balance

\* C10 -- Clamp: the fractional loss a weather_elements step applies to a
\* substance is at most 1, and is 0 when the substance holds no mass; after
\* the step no component mass and no element mass is negative.
C10_Clamp ==
    [][call'.op = "weather_elements" =>
          \A s \in Substances :
              /\ call'.frac[s][2] > 0
              /\ call'.frac[s][1] <= call'.frac[s][2]
              /\ TotalMass(sc, s) = 0 => call'.frac[s][1] = 0
              /\ \A i \in 1..Len(sc'[s].mass) : sc'[s].mass[i] >= 0
              /\ \A i \in 1..Len(sc'[s].mass_components) :
                    \A j \in 1..Len(sc'[s].mass_components[i]) :
                        sc'[s].mass_components[i][j] >= 0]_vars

\* an active step has just run over one substance whose elements hold no
\* mass and one whose elements hold mass
C10_Witness ==
    /\ Weathered("oilA") /\ TotalMass(sc, "oilA") = 0
    /\ Weathered("oilB") /\ TotalMass(sc, "oilB") > 0

\* the element's overall partition coefficient is zero, negative or
\* undefined, or its non-aromatic volume is zero
Degenerate(m, substance) ==
    \/ SgnOfQ(K_ow(m, substance)) \in {"zero", "neg", "nan"}
    \/ S_RA_volume(m, substance) = 0

\* C11 -- an active weather_elements step over a container that holds an
\* element whose overall partition coefficient is zero, negative or
\* undefined, or whose non-aromatic volume is zero, does not abort, leaves
\* the masses of that element unchanged, and stores no non-finite value as
\* its partition coefficient.
C11_DegenerateElement ==
    [][(call'.op = "weather_elements" /\ active) =>
          \A s \in Substances :
              \A i \in 1..Len(sc[s].mass_components) :
                  Degenerate(sc[s].mass_components[i], s) =>
                      /\ ~call'.raised
                      /\ sc'[s].mass[i] = sc[s].mass[i]
                      /\ sc'[s].mass_components[i] = sc[s].mass_components[i]
                      /\ ~IsNaN(sc'[s].partition_coeff[i])]_vars

OtherFields(data) ==
    [mass |-> data.mass, mass_components |-> data.mass_components,
     droplet_avg_size |-> data.droplet_avg_size,
     spill_num |-> data.spill_num, density |-> data.density,
     viscosity |-> data.viscosity]

\* C13 -- Frame of initialize_data: the call changes the partition
\* coefficient of no row that holds a non-zero value, leaves the sentinel
\* rows holding zero, changes no other field of any row (mass, mass
\* components, density, viscosity, droplet size, spill number), and changes
\* no entry of the mass balance.
C13_InitializeFrame ==
    [][call'.op = "initialize_data" =>
          /\ mass_balance' = mass_balance
          /\ \A s \in Substances :
                /\ OtherFields(sc'[s]) = OtherFields(sc[s])
                /\ Len(sc'[s].partition_coeff) = Len(sc[s].partition_coeff)
                /\ \A i \in 1..Len(sc[s].partition_coeff) :
                      IF IsZero(sc[s].partition_coeff[i])
                      THEN IsZero(sc'[s].partition_coeff[i])
                      ELSE sc'[s].partition_coeff[i] =
                               sc[s].partition_coeff[i]]_vars

\* initialize_data has completed on an enabled process for a substance
\* that holds, for one spill, a sentinel row and a row whose partition
\* coefficient an earlier step has set to a non-zero value
C13_Witness ==
    /\ on
    /\ call.op = "initialize_data"
    /\ ~call.raised
    /\ \E s \in Substances :
       \E i, j \in 1..Len(sc[s].partition_coeff) :
          /\ IsZero(sc[s].partition_coeff[i])
          /\ ~IsZero(sc[s].partition_coeff[j])
          /\ sc[s].spill_num[i] = sc[s].spill_num[j]

\* C14 -- get_or_create(model_id): when model_id is the key of a model in
\* the pool, the call returns that model with created = False and leaves
\* the pool unchanged; otherwise it returns, with created = True, a new
\* model that it has registered in a pool otherwise unchanged; in both
\* cases the returned model is a value of the pool afterwards.
C14_GetOrCreate ==
    [][reply'.op = "get_or_create" =>
          /\ IF reply'.model_id \in DOMAIN running_models
             THEN /\ reply'.model = <<running_models[reply'.model_id]>>
                  /\ ~reply'.flag
                  /\ running_models' = running_models
             ELSE /\ reply'.flag
                  /\ reply'.model[1].id \notin DOMAIN running_models
                  /\ running_models' =
                        dict_set(running_models, reply'.model[1].id,
                                 reply'.model[1])
          /\ \E k \in DOMAIN running_models' :
                running_models'[k] = reply'.model[1]]_vars

\* the two date records agree in every field except dayOfWeek
SameButDayOfWeek(a, b) ==
    /\ a.year = b.year /\ a.month = b.month /\ a.day = b.day
    /\ a.hour = b.hour /\ a.minute = b.minute /\ a.second = b.second

SameRows(data) ==
    /\ Len(data.mass) = Len(data.spill_num)
    /\ Len(data.mass_components) = Len(data.spill_num)
    /\ Len(data.partition_coeff) = Len(data.spill_num)
    /\ Len(data.droplet_avg_size) = Len(data.spill_num)

\* C16 -- Row-count invariant: in every state, for every substance, the
\* mass, mass components, partition coefficient, droplet size and spill
\* number arrays have the same number of rows; and no initialize_data or
\* weather_elements call reduces the number of rows of a substance.
C16_RowCount ==
    /\ [](\A s \in Substances : SameRows(sc[s]))
    /\ [][call'.op \in {"initialize_data", "weather_elements"} =>
             \A s \in Substances :
                 Len(sc'[s].spill_num) >= Len(sc[s].spill_num)]_vars

\* an active step has just run over a substance that holds one element,
\* after initialize_data had counted it
C16_Witness ==
    /\ Weathered("oilB")
    /\ Len(sc["oilB"].spill_num) = 1
    /\ Len(sc["oilA"].spill_num) = 1
    /\ Weathered("oilA")

\* C17 -- Sentinel exactness: when initialize_data is called, the rows that
\* hold the sentinel-zero partition coefficient are exactly the rows no
\* active weather_elements step has been through since their release; and
\* in every state, a row that has been through an active weather_elements
\* step does not hold the sentinel zero, whatever its substance.
C17_SentinelExact ==
    /\ [][call'.op = "initialize_data" =>
             \A s \in Substances :
                 \A i \in 1..Len(sc[s].partition_coeff) :
                     IsZero(sc[s].partition_coeff[i])
                         <=> ~history.weathered[s][i]]_vars
    /\ [](\A s \in Substances :
             \A i \in 1..Len(sc[s].partition_coeff) :
                 history.weathered[s][i]
                     => ~IsZero(sc[s].partition_coeff[i]))

\* C18 -- Volume-partition assertion: for every element the container
\* holds, the aromatic volume plus the non-aromatic volume equals the total
\* volume, and no weather_elements call fails.
C18_VolumePartition ==
    /\ \A s \in Substances :
          \A i \in 1..Len(sc[s].mass_components) :
              volume_assertion(sc[s].mass_components[i], s)
    /\ call.op = "weather_elements" => ~call.raised

\* an active step has just run dissolve_oil over an element with aromatic
\* and saturate mass and over an element with saturate and resin mass
C18_Witness ==
    /\ Weathered("oilA") /\ Weathered("oilB")
    /\ \E i \in 1..Len(sc["oilA"].mass_components) :
          aromatic_volume(sc["oilA"].mass_components[i], "oilA") > 0
          /\ S_RA_volume(sc["oilA"].mass_components[i], "oilA") > 0
    /\ \E i \in 1..Len(sc["oilB"].mass_components) :
          sc["oilB"].mass_components[i][2] > 0

\* C19 -- Ledger accrual: over a weather_elements step of the active
\* process the 'dissolution' entry grows by the sum, over the substances
\* that hold elements, of the dissipated mass reported for the substance in
\* that step, and no substance without elements reports any; a
\* weather_elements call on an inactive process, initialize_data, a release
\* and prepare_for_model_step leave the mass balance as it is.
C19_LedgerAccrual ==
    [][/\ (call'.op = "weather_elements" /\ active /\ ~call'.raised) =>
             /\ ledger(mass_balance') - ledger(mass_balance) =
                   SumSeq([k \in 1..Len(SubstanceOrder) |->
                              IF Len(sc[SubstanceOrder[k]].mass) > 0
                              THEN call'.diss[SubstanceOrder[k]] ELSE 0])
             /\ \A s \in Substances :
                   Len(sc[s].mass) = 0 => call'.diss[s] = 0
       /\ (call'.op = "weather_elements" /\ ~active) =>
             mass_balance' = mass_balance
       /\ call'.op \in {"initialize_data", "release_elements",
                        "prepare_for_model_step"} =>
             mass_balance' = mass_balance]_vars

\* an active step has just run over a container in which one substance
\* holds elements with mass and the other holds none
C19_Witness ==
    /\ active
    /\ Weathered("oilA")
    /\ TotalMass(sc, "oilA") > 0
    /\ Len(sc["oilB"].mass) = 0
    /\ "dissolution" \in DOMAIN mass_balance

\* C20 -- get(model_id) raises DoesNotExist exactly when exists(model_id)
\* answers False, and otherwise returns the model registered under
\* model_id; a get, failing or not, leaves the pool unchanged; exists
\* answers whether model_id is a key of the pool; delete(model_id) does not
\* fail, and after it model_id is no key of the pool while every other key
\* keeps its model.
C20_GetExistsDelete ==
    [][/\ reply'.op = "get" =>
             /\ reply'.raised = ~contains(running_models, reply'.model_id)
             /\ ~reply'.raised =>
                   reply'.model = <<running_models[reply'.model_id]>>
             /\ running_models' = running_models
       /\ reply'.op = "exists" =>
             /\ reply'.flag = contains(running_models, reply'.model_id)
             /\ running_models' = running_models
       /\ reply'.op = "delete" =>
             /\ ~reply'.raised
             /\ ~contains(running_models', reply'.model_id)
             /\ running_models' =
                   dict_pop(running_models, reply'.model_id)]_vars

\* get has returned the model registered under an empty key, which is not
\* that model's id, from a pool that also holds a model under its own id
C20_Witness ==
    /\ reply.op = "get"
    /\ ~reply.raised
    /\ reply.model_id = NoId
    /\ reply.model[1].id # NoId
    /\ \E k \in DOMAIN running_models : running_models[k].id = k

\* C21 -- Pool key invariant: in every state reached by create,
\* get_or_create, add and delete calls, every key of running_models maps to
\* a model whose id equals that key.
C21_PoolKeyInvariant ==
    \A k \in DOMAIN running_models : running_models[k].id = k

====
